---- MODULE Spec2Model ----
(***************************************************************************)
(* A model of llama_index.tools.quercle.base: the QuercleToolSpec adapter  *)
(* (configuration, two lazily built client handles, five paired sync and   *)
(* async operations) and the external Quercle client it delegates to.      *)
(*                                                                         *)
(* Five specifications share the state:                                    *)
(*   Spec          one caller using one adapter sequentially (every sync   *)
(*                 call, and every awaited async call, runs to its end);   *)
(*   SpecThreads   several threads making sync calls on one adapter, a     *)
(*                 thread switch possible between any two attribute        *)
(*                 accesses of _get_sync_client, while the event loop      *)
(*                 uses the async handle;                                  *)
(*   SpecAsync     several tasks of one event loop running async           *)
(*                 operations on one adapter, a task switch possible only  *)
(*                 at an await;                                            *)
(*   SpecTools     one adapter, made by a factory function or by the       *)
(*                 caller, the tools made for it (by the factory, by       *)
(*                 to_tool_list) and the calls of those tools;             *)
(*   SpecFactories several factory calls, each with an adapter of its own, *)
(*                 and sync calls of the tools they returned.              *)
(***************************************************************************)
EXTENDS Integers, Sequences, FiniteSets, TLC

VARIABLES
    init_kwargs,     \* the keyword arguments QuercleToolSpec(...) was built with
    api_key,         \* self._api_key
    timeout,         \* self._timeout
    sync_client,     \* self._sync_client
    async_client,    \* self._async_client
    sync_ctor_log,   \* every QuercleClient(...) invocation, in order
    async_ctor_log,  \* every AsyncQuercleClient(...) invocation, in order
    last,            \* the most recent completed call on the adapter
    tpc,             \* per thread: where it is inside its sync call
    tlocal,          \* per thread: the handle its constructor call built
    tgot,            \* per thread: the handle _get_sync_client returned to it
    running,         \* the task the event loop is running, 0 between tasks
    apc,             \* per task: where it is inside its async operation
    aop,             \* per task: the operation it runs and what came of it
    adapters,        \* the adapters made by factory calls and by callers
    tools,           \* the tools returned so far
    tool_last        \* the most recent completed call of a tool

vars == <<init_kwargs, api_key, timeout, sync_client, async_client,
          sync_ctor_log, async_ctor_log, last,
          tpc, tlocal, tgot, running, apc, aop, adapters, tools, tool_last>>

adapter_vars == <<init_kwargs, api_key, timeout>>
thread_vars == <<tpc, tlocal, tgot>>
task_vars == <<running, apc, aop>>
tool_vars == <<adapters, tools, tool_last>>

----------------------------------------------------------------------------
(* Bounds of the model. *)

\* A client constructor is invoked at most this many times per mode.
MaxCtorCalls == 2

\* The number of threads of SpecThreads.
NumThreads == 2

\* The number of tasks of SpecAsync.
NumTasks == 2

\* The adapters and the tools of SpecTools.
MaxAdapters == 2
MaxTools == 6

----------------------------------------------------------------------------
(* Python values, all of one record shape so that any two compare. *)

PyNone == [tag |-> "none", s |-> "", n |-> 0, kids |-> <<>>]
PyStr(x) == [tag |-> "str", s |-> x, n |-> 0, kids |-> <<>>]
PyBool(b) == [tag |-> "bool", s |-> "", n |-> IF b THEN 1 ELSE 0, kids |-> <<>>]
PyInt(i) == [tag |-> "int", s |-> "", n |-> i, kids |-> <<>>]
PyFloat(i) == [tag |-> "float", s |-> "", n |-> i, kids |-> <<>>]
PyList(items) == [tag |-> "list", s |-> "", n |-> 0, kids |-> items]
\* One key: value item of a dict (keys are strings).
PyItem(k, v) == [tag |-> "item", s |-> k, n |-> 0, kids |-> <<v>>]
PyDict(items) == [tag |-> "dict", s |-> "", n |-> 0, kids |-> items]

\* isinstance(v, str)
IsStr(v) == v.tag = "str"

\* A call's outcome: a returned value or a raised exception.
Return(v) == [kind |-> "return", value |-> v, exc |-> ""]
Raise(e) == [kind |-> "raise", value |-> PyNone, exc |-> e]

\* Client handles. NoHandle is Python's None in a handle field.
NoHandle == [cls |-> "NoneType", id |-> 0]
Handle(c, i) == [cls |-> c, id |-> i]

----------------------------------------------------------------------------
(* json.dumps with its default separators, as base.py calls it. *)

Digit(d) == SubSeq("0123456789", d + 1, d + 1)

RECURSIVE NatToStr(_)
NatToStr(i) == IF i < 10 THEN Digit(i) ELSE NatToStr(i \div 10) \o Digit(i % 10)

IntToStr(i) == IF i < 0 THEN "-" \o NatToStr(0 - i) ELSE NatToStr(i)

\* The body of a JSON string: the quote and the backslash are escaped.
RECURSIVE EscapeStr(_)
EscapeStr(x) ==
    IF Len(x) = 0 THEN ""
    ELSE LET c == SubSeq(x, 1, 1)
             e == IF c = "\"" THEN "\\\""
                  ELSE IF c = "\\" THEN "\\\\"
                  ELSE IF c = "\n" THEN "\\n"
                  ELSE c
         IN e \o EscapeStr(SubSeq(x, 2, Len(x)))

RECURSIVE json_dumps(_)
json_dumps(v) ==
    LET RECURSIVE Join(_)
        Join(items) ==
            IF Len(items) = 0 THEN ""
            ELSE IF Len(items) = 1 THEN json_dumps(items[1])
            ELSE json_dumps(items[1]) \o ", " \o Join(Tail(items))
    IN CASE v.tag = "none" -> "null"
         [] v.tag = "bool" -> (IF v.n = 1 THEN "true" ELSE "false")
         [] v.tag = "int" -> IntToStr(v.n)
         [] v.tag = "float" -> IntToStr(v.n) \o ".0"
         [] v.tag = "str" -> "\"" \o EscapeStr(v.s) \o "\""
         [] v.tag = "list" -> "[" \o Join(v.kids) \o "]"
         [] v.tag = "item" ->
                "\"" \o EscapeStr(v.s) \o "\": " \o json_dumps(v.kids[1])
         [] v.tag = "dict" -> "{" \o Join(v.kids) \o "}"

----------------------------------------------------------------------------
(* The values the model draws arguments, results and failures from. *)

\* An argument the caller did not pass.
Omitted == [tag |-> "omitted", s |-> "", n |-> 0, kids |-> <<>>]

Ops == {"fetch", "search", "raw_fetch", "raw_search", "extract"}

\* A variant of spec_functions that names the sync methods only.
spec_functions_sync_only ==
    << <<"fetch">>, <<"search">>, <<"raw_fetch">>, <<"raw_search">>,
       <<"extract">> >>

\* spec_functions: each sync method with its async counterpart.
spec_functions ==
    << <<"fetch", "afetch">>, <<"search", "asearch">>,
       <<"raw_fetch", "araw_fetch">>, <<"raw_search", "araw_search">>,
       <<"extract", "aextract">> >>

\* The parameters of each operation, and those with no default.
Params(op) ==
    CASE op = "fetch" -> {"url", "prompt"}
      [] op = "search" -> {"query", "allowed_domains", "blocked_domains"}
      [] op = "raw_fetch" -> {"url", "format", "use_safeguard"}
      [] op = "raw_search" -> {"query", "format", "use_safeguard"}
      [] op = "extract" -> {"url", "query", "format", "use_safeguard"}
      [] op = "__init__" -> {"api_key", "timeout"}

Required(op) ==
    CASE op = "fetch" -> {"url", "prompt"}
      [] op = "search" -> {"query"}
      [] op = "raw_fetch" -> {"url"}
      [] op = "raw_search" -> {"query"}
      [] op = "extract" -> {"url", "query"}
      [] op = "__init__" -> {}

\* The two values the model passes for each parameter.
ArgValues(p) ==
    CASE p = "url" ->
            <<PyStr("https://example.com"), PyStr("https://docs.python.org/3/")>>
      [] p = "prompt" ->
            <<PyStr("Summarize this page"), PyStr("List the headings")>>
      [] p = "query" -> <<PyStr("Python news"), PyStr("main features")>>
      [] p = "allowed_domains" ->
            <<PyList(<<PyStr("python.org")>>),
              PyList(<<PyStr("python.org"), PyStr("pypi.org")>>)>>
      [] p = "blocked_domains" ->
            <<PyList(<<PyStr("spam.com")>>), PyList(<<>>)>>
      [] p = "format" -> <<PyStr("html"), PyStr("markdown")>>
      [] p = "use_safeguard" -> <<PyBool(TRUE), PyBool(FALSE)>>
      [] p = "api_key" -> <<PyStr("test_key"), PyStr("test_key")>>
      [] p = "timeout" -> <<PyFloat(30), PyFloat(30)>>

\* The sets of parameters a caller passes: for an operation the required
\* ones, alone or with every optional one; for __init__ any of them.
GivenSets(op) ==
    IF op = "__init__" THEN SUBSET Params(op) ELSE {Required(op), Params(op)}

\* The keyword calls of op the model makes.
KwargsOf(op) ==
    {[p \in Params(op) |-> IF p \in G THEN ArgValues(p)[v] ELSE Omitted] :
        G \in GivenSets(op), v \in {1, 2}}

CallerKwargs ==
    [fetch |-> KwargsOf("fetch"),
     search |-> KwargsOf("search"),
     raw_fetch |-> KwargsOf("raw_fetch"),
     raw_search |-> KwargsOf("raw_search"),
     extract |-> KwargsOf("extract")]

InitKwargs == KwargsOf("__init__")

\* What the client's response envelope can carry in its result field.
ResultValues ==
    { PyStr("Fetched content"),
      PyDict(<<PyItem("key", PyStr("value"))>>),
      PyList(<<PyDict(<<PyItem("title", PyStr("say \"hi\""))>>),
               PyInt(-12), PyBool(TRUE), PyNone>>) }

\* The failures a client method and a client constructor can raise.
ClientErrors == {"TimeoutError"}
CtorErrors == {"AuthenticationError"}

\* What a client method call can do: return an envelope or raise.
ClientOutcomes ==
    {Return(r) : r \in ResultValues} \cup {Raise(e) : e \in ClientErrors}

\* What a client constructor call can do: build a handle or raise.
CtorOutcomes == {"ok"} \cup CtorErrors

----------------------------------------------------------------------------
(* QuercleToolSpec: construction and the two lazily built client handles. *)

\* Python's binding of a keyword call: a parameter the caller left out takes
\* its default, which is None for every optional parameter of base.py.
Bind(op, kw) ==
    [p \in Params(op) |-> IF kw[p] = Omitted THEN PyNone ELSE kw[p]]

\* A variant of __init__ that builds the sync client at construction.
QuercleToolSpec_init_eager(kw) ==
    LET a == Bind("__init__", kw)
    IN [api_key |-> a.api_key,
        timeout |-> a.timeout,
        sync_client |-> Handle("QuercleClient", 1),
        async_client |-> NoHandle]

\* QuercleToolSpec.__init__: the fields of a new adapter.
QuercleToolSpec_init(kw) ==
    LET a == Bind("__init__", kw)
    IN [api_key |-> a.api_key,
        timeout |-> a.timeout,
        sync_client |-> NoHandle,
        async_client |-> NoHandle]

\* The fields of the adapter that Spec, SpecThreads and SpecAsync are about,
\* as the object self.
Self ==
    [api_key |-> api_key, timeout |-> timeout,
     sync_client |-> sync_client, async_client |-> async_client]

\* A variant that hands the timeout to the constructor as well.
sync_ctor_kwargs_with_timeout(self) ==
    [api_key |-> self.api_key, timeout |-> self.timeout]

\* The keyword arguments each client constructor is called with.
sync_ctor_kwargs(self) == [api_key |-> self.api_key]
async_ctor_kwargs(self) == [api_key |-> self.api_key]

\* One constructor invocation: what it was given, what it built (NoHandle
\* when it raised). Every object a class builds is a new one: the i-th
\* invocation of the class builds the handle numbered i.
CtorCall(cls, kwargs, c, i) ==
    [cls |-> cls,
     kwargs |-> kwargs,
     built |-> IF c = "ok" THEN Handle(cls, i) ELSE NoHandle,
     exc |-> IF c = "ok" THEN "" ELSE c]

\* A variant of _get_sync_client without the test of the field: it
\* constructs at every call.
get_sync_client_uncached(self, c) ==
    LET call == CtorCall("QuercleClient", [api_key |-> self.api_key], c,
                         Len(sync_ctor_log) + 1)
    IN [self |-> IF call.exc = "" THEN [self EXCEPT !.sync_client = call.built]
                 ELSE self,
        ret |-> call.built, ctor |-> <<call>>, exc |-> call.exc]

\* _get_sync_client on the adapter self, the constructor behaving as c when
\* it is called: self is the adapter afterwards (the assignment is not
\* reached when the constructor raises), ret the handle returned, ctor the
\* constructor invocations made, exc the failure that escaped ("" if none).
get_sync_client(self, c) ==
    IF self.sync_client = NoHandle
    THEN LET call == CtorCall("QuercleClient", sync_ctor_kwargs(self), c,
                              Len(sync_ctor_log) + 1)
         IN [self |-> IF call.exc = ""
                      THEN [self EXCEPT !.sync_client = call.built]
                      ELSE self,
             ret |-> call.built, ctor |-> <<call>>, exc |-> call.exc]
    ELSE [self |-> self, ret |-> self.sync_client, ctor |-> <<>>, exc |-> ""]

\* A variant of _get_async_client that loses the timeout when it builds
\* the handle.
get_async_client_resets_timeout(self, c) ==
    IF self.async_client = NoHandle
    THEN LET call == CtorCall("AsyncQuercleClient", async_ctor_kwargs(self), c,
                              Len(async_ctor_log) + 1)
         IN [self |-> IF call.exc = ""
                      THEN [self EXCEPT !.async_client = call.built,
                                        !.timeout = PyNone]
                      ELSE self,
             ret |-> call.built, ctor |-> <<call>>, exc |-> call.exc]
    ELSE [self |-> self, ret |-> self.async_client, ctor |-> <<>>, exc |-> ""]

\* _get_async_client, likewise.
get_async_client(self, c) ==
    IF self.async_client = NoHandle
    THEN LET call == CtorCall("AsyncQuercleClient", async_ctor_kwargs(self), c,
                              Len(async_ctor_log) + 1)
         IN [self |-> IF call.exc = ""
                      THEN [self EXCEPT !.async_client = call.built]
                      ELSE self,
             ret |-> call.built, ctor |-> <<call>>, exc |-> call.exc]
    ELSE [self |-> self, ret |-> self.async_client, ctor |-> <<>>, exc |-> ""]

----------------------------------------------------------------------------
(* The ten operations. Each takes the adapter self, its bound arguments a, *)
(* the behaviour c of the client constructor should it be called, and the  *)
(* behaviour co of the client method; it yields the handle access g (the   *)
(* adapter afterwards in g.self), the client method invocations inv, and   *)
(* the caller's outcome out.                                               *)

\* A client method that was never reached.
NotReached == [kind |-> "none", value |-> PyNone, exc |-> ""]

\* One invocation of a client method.
Invocation(h, method, args, kwargs) ==
    [client |-> h, method |-> method, args |-> args, kwargs |-> kwargs]

\* A variant that catches the client method's failure and returns its
\* name as text.
Delegate_swallow(g, call, co, returned) ==
    IF g.exc # ""
    THEN [g |-> g, inv |-> <<>>, co |-> NotReached, out |-> Raise(g.exc)]
    ELSE IF co.kind = "raise"
    THEN [g |-> g, inv |-> <<call>>, co |-> co, out |-> Return(PyStr(co.exc))]
    ELSE [g |-> g, inv |-> <<call>>, co |-> co, out |-> Return(returned)]

\* A variant that calls the client method a second time when it fails.
Delegate_retry(g, call, co, returned) ==
    IF g.exc # ""
    THEN [g |-> g, inv |-> <<>>, co |-> NotReached, out |-> Raise(g.exc)]
    ELSE IF co.kind = "raise"
    THEN [g |-> g, inv |-> <<call, call>>, co |-> co, out |-> co]
    ELSE [g |-> g, inv |-> <<call>>, co |-> co, out |-> Return(returned)]

\* A variant that drops both handles when the client method fails.
Delegate_invalidate(g, call, co, returned) ==
    IF g.exc # ""
    THEN [g |-> g, inv |-> <<>>, co |-> NotReached, out |-> Raise(g.exc)]
    ELSE IF co.kind = "raise"
    THEN [g |-> [g EXCEPT !.self.sync_client = NoHandle,
                          !.self.async_client = NoHandle],
          inv |-> <<call>>, co |-> co, out |-> co]
    ELSE [g |-> g, inv |-> <<call>>, co |-> co, out |-> Return(returned)]

\* Python's evaluation of  <get client>.<method>(...)  followed by the
\* statements after it: a failure of the handle access or of the client
\* method escapes to the caller, there being no try statement; otherwise
\* the method body's return value is returned.
Delegate(g, call, co, returned) ==
    IF g.exc # ""
    THEN [g |-> g, inv |-> <<>>, co |-> NotReached, out |-> Raise(g.exc)]
    ELSE IF co.kind = "raise"
    THEN [g |-> g, inv |-> <<call>>, co |-> co, out |-> co]
    ELSE [g |-> g, inv |-> <<call>>, co |-> co, out |-> Return(returned)]

\* result if isinstance(result, str) else json.dumps(result)
str_or_dumps(result) ==
    IF IsStr(result) THEN result ELSE PyStr(json_dumps(result))

fetch(self, a, c, co) ==
    LET g == get_sync_client(self, c)
    IN Delegate(g,
         Invocation(g.ret, "fetch", <<>>,
           [url |-> a.url, prompt |-> a.prompt, timeout |-> self.timeout]),
         co, co.value)

\* A variant of afetch that goes to the sync client.
afetch_via_sync_client(self, a, c, co) ==
    LET g == get_sync_client(self, c)
    IN Delegate(g,
         Invocation(g.ret, "fetch", <<>>,
           [url |-> a.url, prompt |-> a.prompt, timeout |-> self.timeout]),
         co, co.value)

afetch(self, a, c, co) ==
    LET g == get_async_client(self, c)
    IN Delegate(g,
         Invocation(g.ret, "fetch", <<>>,
           [url |-> a.url, prompt |-> a.prompt, timeout |-> self.timeout]),
         co, co.value)

search(self, a, c, co) ==
    LET g == get_sync_client(self, c)
    IN Delegate(g,
         Invocation(g.ret, "search", <<a.query>>,
           [allowed_domains |-> a.allowed_domains,
            blocked_domains |-> a.blocked_domains,
            timeout |-> self.timeout]),
         co, co.value)

asearch(self, a, c, co) ==
    LET g == get_async_client(self, c)
    IN Delegate(g,
         Invocation(g.ret, "search", <<a.query>>,
           [allowed_domains |-> a.allowed_domains,
            blocked_domains |-> a.blocked_domains,
            timeout |-> self.timeout]),
         co, co.value)

raw_fetch(self, a, c, co) ==
    LET g == get_sync_client(self, c)
    IN Delegate(g,
         Invocation(g.ret, "raw_fetch", <<a.url>>,
           [format |-> a.format, use_safeguard |-> a.use_safeguard,
            timeout |-> self.timeout]),
         co, str_or_dumps(co.value))

\* A variant of araw_fetch that returns the result field as it is.
araw_fetch_unconverted(self, a, c, co) ==
    LET g == get_async_client(self, c)
    IN Delegate(g,
         Invocation(g.ret, "raw_fetch", <<a.url>>,
           [format |-> a.format, use_safeguard |-> a.use_safeguard,
            timeout |-> self.timeout]),
         co, co.value)

araw_fetch(self, a, c, co) ==
    LET g == get_async_client(self, c)
    IN Delegate(g,
         Invocation(g.ret, "raw_fetch", <<a.url>>,
           [format |-> a.format, use_safeguard |-> a.use_safeguard,
            timeout |-> self.timeout]),
         co, str_or_dumps(co.value))

raw_search(self, a, c, co) ==
    LET g == get_sync_client(self, c)
    IN Delegate(g,
         Invocation(g.ret, "raw_search", <<a.query>>,
           [format |-> a.format, use_safeguard |-> a.use_safeguard,
            timeout |-> self.timeout]),
         co, str_or_dumps(co.value))

araw_search(self, a, c, co) ==
    LET g == get_async_client(self, c)
    IN Delegate(g,
         Invocation(g.ret, "raw_search", <<a.query>>,
           [format |-> a.format, use_safeguard |-> a.use_safeguard,
            timeout |-> self.timeout]),
         co, str_or_dumps(co.value))

\* A variant of extract that passes query and url in the wrong order.
extract_swapped(self, a, c, co) ==
    LET g == get_sync_client(self, c)
    IN Delegate(g,
         Invocation(g.ret, "extract", <<a.query, a.url>>,
           [format |-> a.format, use_safeguard |-> a.use_safeguard,
            timeout |-> self.timeout]),
         co, str_or_dumps(co.value))

extract(self, a, c, co) ==
    LET g == get_sync_client(self, c)
    IN Delegate(g,
         Invocation(g.ret, "extract", <<a.url, a.query>>,
           [format |-> a.format, use_safeguard |-> a.use_safeguard,
            timeout |-> self.timeout]),
         co, str_or_dumps(co.value))

aextract(self, a, c, co) ==
    LET g == get_async_client(self, c)
    IN Delegate(g,
         Invocation(g.ret, "extract", <<a.url, a.query>>,
           [format |-> a.format, use_safeguard |-> a.use_safeguard,
            timeout |-> self.timeout]),
         co, str_or_dumps(co.value))

\* The sync method of the adapter named op, and the async method paired
\* with it in spec_functions.
SyncMethod(self, op, a, c, co) ==
    CASE op = "fetch" -> fetch(self, a, c, co)
      [] op = "search" -> search(self, a, c, co)
      [] op = "raw_fetch" -> raw_fetch(self, a, c, co)
      [] op = "raw_search" -> raw_search(self, a, c, co)
      [] op = "extract" -> extract(self, a, c, co)

AsyncMethod(self, op, a, c, co) ==
    CASE op = "fetch" -> afetch(self, a, c, co)
      [] op = "search" -> asearch(self, a, c, co)
      [] op = "raw_fetch" -> araw_fetch(self, a, c, co)
      [] op = "raw_search" -> araw_search(self, a, c, co)
      [] op = "extract" -> aextract(self, a, c, co)

\* What is remembered of a completed call.
Completed(mode, op, kw, r) ==
    [mode |-> mode, op |-> op, kw |-> kw, got |-> r.g.ret, ctor |-> r.g.ctor,
     ctor_exc |-> r.g.exc, co |-> r.co, inv |-> r.inv, out |-> r.out]

\* What is remembered of a direct call of _get_sync_client or
\* _get_async_client: the handle it returned, or the failure that escaped.
Accessed(mode, g) ==
    [mode |-> mode, op |-> "get_client", kw |-> <<>>, got |-> g.ret,
     ctor |-> g.ctor, ctor_exc |-> g.exc, co |-> NotReached, inv |-> <<>>,
     out |-> IF g.exc = "" THEN NotReached ELSE Raise(g.exc)]

NoCall ==
    [mode |-> "none", op |-> "none", kw |-> <<>>, got |-> NoHandle,
     ctor |-> <<>>, ctor_exc |-> "", co |-> NotReached, inv |-> <<>>, out |-> NotReached]

Threads == 1..NumThreads

\* The tasks of the event loop.
Tasks == 1..NumTasks

\* No tool has been called yet.
NoToolCall ==
    [tool |-> 0, adapter |-> 0, entry |-> "none", method |-> "none",
     kw |-> <<>>, got |-> NoHandle, ctor |-> <<>>, ctor_exc |-> "",
     co |-> NotReached, inv |-> <<>>, out |-> NotReached,
     raw_output |-> PyNone]

----------------------------------------------------------------------------
(* The state machine. *)

\* spec = QuercleToolSpec(**kw), for every kw a caller can pass.
Init ==
    \E kw \in InitKwargs :
        LET self == QuercleToolSpec_init(kw)
        IN /\ init_kwargs = kw
           /\ api_key = self.api_key
           /\ timeout = self.timeout
           /\ sync_client = self.sync_client
           /\ async_client = self.async_client
           /\ sync_ctor_log = <<>>
           /\ async_ctor_log = <<>>
           /\ last = NoCall
           /\ tpc = [t \in Threads |-> "idle"]
           /\ tlocal = [t \in Threads |-> NoHandle]
           /\ tgot = [t \in Threads |-> NoHandle]
           /\ running = 0
           /\ apc = [t \in Tasks |-> "idle"]
           /\ aop = [t \in Tasks |-> NoCall]
           /\ adapters = <<>>
           /\ tools = <<>>
           /\ tool_last = NoToolCall

\* The invocations of class cls among the constructor invocations ctor.
OfClass(ctor, cls) == SelectSeq(ctor, LAMBDA x : x.cls = cls)

\* What a handle access g leaves behind: every constructor invocation it
\* made is on record with its class.
Logged(g) ==
    /\ sync_ctor_log' = sync_ctor_log \o OfClass(g.ctor, "QuercleClient")
    /\ async_ctor_log' = async_ctor_log \o OfClass(g.ctor, "AsyncQuercleClient")

\* The effect on the adapter self of a handle access g made by one of its
\* methods: the fields are what the method left in them.
Effect(g) ==
    /\ api_key' = g.self.api_key
    /\ timeout' = g.self.timeout
    /\ sync_client' = g.self.sync_client
    /\ async_client' = g.self.async_client
    /\ Logged(g)

\* The constructor call budget of the model.
SyncCtorBudget == sync_client = NoHandle => Len(sync_ctor_log) < MaxCtorCalls
AsyncCtorBudget == async_client = NoHandle => Len(async_ctor_log) < MaxCtorCalls

\* What the constructor would do if this call invoked it; with a handle in
\* place the choice is between equal things, and one is kept.
SyncCtorOutcomes == IF sync_client = NoHandle THEN CtorOutcomes ELSE {"ok"}
AsyncCtorOutcomes == IF async_client = NoHandle THEN CtorOutcomes ELSE {"ok"}

\* spec._get_sync_client() called directly.
GetSyncClient ==
    /\ SyncCtorBudget
    /\ \E c \in SyncCtorOutcomes :
          LET g == get_sync_client(Self, c)
          IN /\ Effect(g)
             /\ last' = Accessed("sync", g)
    /\ UNCHANGED <<init_kwargs, thread_vars, task_vars, tool_vars>>

\* spec._get_async_client() called directly.
GetAsyncClient ==
    /\ AsyncCtorBudget
    /\ \E c \in AsyncCtorOutcomes :
          LET g == get_async_client(Self, c)
          IN /\ Effect(g)
             /\ last' = Accessed("async", g)
    /\ UNCHANGED <<init_kwargs, thread_vars, task_vars, tool_vars>>

\* One of the five sync operations, called and run to completion.
SyncCall ==
    /\ SyncCtorBudget
    /\ \E op \in Ops : \E kw \in CallerKwargs[op] :
       \E c \in SyncCtorOutcomes : \E co \in ClientOutcomes :
          LET r == SyncMethod(Self, op, Bind(op, kw), c, co)
          IN /\ Effect(r.g)
             /\ last' = Completed("sync", op, kw, r)
    /\ UNCHANGED <<init_kwargs, thread_vars, task_vars, tool_vars>>

\* One of the five async operations, awaited to completion by its caller.
AsyncCall ==
    /\ AsyncCtorBudget
    /\ \E op \in Ops : \E kw \in CallerKwargs[op] :
       \E c \in AsyncCtorOutcomes : \E co \in ClientOutcomes :
          LET r == AsyncMethod(Self, op, Bind(op, kw), c, co)
          IN /\ Effect(r.g)
             /\ last' = Completed("async", op, kw, r)
    /\ UNCHANGED <<init_kwargs, thread_vars, task_vars, tool_vars>>

Next == GetSyncClient \/ GetAsyncClient \/ SyncCall \/ AsyncCall

Spec == Init /\ [][Next]_vars

----------------------------------------------------------------------------
(* Sync calls made from several threads. Each thread makes one sync call;  *)
(* the interpreter can switch threads between any two of the steps of      *)
(* _get_sync_client: the test of the field, the constructor call, the      *)
(* store into the field, the read of the field for the return.             *)

\* A variant without the test: every call constructs.
after_check_always_construct(t) == "construct"

\* if self._sync_client is None: where thread t goes from the test.
after_check(t) == IF sync_client = NoHandle THEN "construct" ELSE "return"

TCheck(t) ==
    /\ tpc[t] = "idle"
    /\ tpc' = [tpc EXCEPT ![t] = after_check(t)]
    /\ UNCHANGED <<adapter_vars, task_vars, tool_vars, sync_client, async_client,
                   sync_ctor_log, async_ctor_log, last, tlocal, tgot>>

\* QuercleClient(api_key=self._api_key), not yet assigned.
TConstruct(t) ==
    /\ tpc[t] = "construct"
    /\ \E c \in CtorOutcomes :
          LET call == CtorCall("QuercleClient", sync_ctor_kwargs(Self), c,
                               Len(sync_ctor_log) + 1)
          IN /\ sync_ctor_log' = Append(sync_ctor_log, call)
             /\ tlocal' = [tlocal EXCEPT ![t] = call.built]
             /\ tpc' = [tpc EXCEPT ![t] = IF c = "ok" THEN "store" ELSE "raised"]
    /\ UNCHANGED <<adapter_vars, task_vars, tool_vars, sync_client, async_client,
                   async_ctor_log, last, tgot>>

\* A variant that keeps a handle another thread stored in the meantime.
stored_by_first_write(t) ==
    IF sync_client = NoHandle THEN tlocal[t] ELSE sync_client

\* The value thread t's assignment leaves in self._sync_client.
stored_by(t) == tlocal[t]

\* self._sync_client = <the handle just built>
TStore(t) ==
    /\ tpc[t] = "store"
    /\ sync_client' = stored_by(t)
    /\ tpc' = [tpc EXCEPT ![t] = "return"]
    /\ UNCHANGED <<adapter_vars, task_vars, tool_vars, async_client,
                   sync_ctor_log, async_ctor_log, last, tlocal, tgot>>

\* return self._sync_client
TReturn(t) ==
    /\ tpc[t] = "return"
    /\ tgot' = [tgot EXCEPT ![t] = sync_client]
    /\ tpc' = [tpc EXCEPT ![t] = "request"]
    /\ UNCHANGED <<adapter_vars, task_vars, tool_vars, sync_client, async_client,
                   sync_ctor_log, async_ctor_log, last, tlocal>>

\* The client method is invoked on the handle that was returned.
TRequest(t) ==
    /\ tpc[t] = "request"
    /\ tpc' = [tpc EXCEPT ![t] = "done"]
    /\ UNCHANGED <<adapter_vars, task_vars, tool_vars, sync_client, async_client,
                   sync_ctor_log, async_ctor_log, last, tlocal, tgot>>

\* The threads, and beside them the event loop's use of the async handle.
NextThreads ==
    \/ \E t \in Threads :
          TCheck(t) \/ TConstruct(t) \/ TStore(t) \/ TReturn(t) \/ TRequest(t)
    \/ GetAsyncClient

SpecThreads == Init /\ [][NextThreads]_vars

----------------------------------------------------------------------------
(* Async operations run as tasks of one event loop on one adapter. The     *)
(* loop runs one task at a time and switches only where the running task   *)
(* suspends. The body of an async operation is                             *)
(*     response = await self._get_async_client().<method>(...)             *)
(* so a task tests the field, constructs and stores the handle, reads it   *)
(* back and calls the client's method, and suspends at the await of that   *)
(* call; resumed with the client's answer, it runs to its end.             *)

\* A variant in which the construction of the client is awaited as well.
SuspensionPoints_with_awaited_constructor == {"construct", "awaiting"}

\* The positions at which an async operation hands control to the loop.
SuspensionPoints == {"awaiting"}

\* The loop can give task t its next step.
Scheduled(t) ==
    \/ running = t
    \/ running = 0 /\ apc[t] \in SuspensionPoints \cup {"idle"}

\* The task the loop is running once t has reached position pc.
RunningAfter(t, pc) ==
    IF pc \in SuspensionPoints \cup {"done", "raised"} THEN 0 ELSE t

\* The calls the tasks make: each operation with its required arguments.
TaskKwargs(op) ==
    [p \in Params(op) |-> IF p \in Required(op) THEN ArgValues(p)[1] ELSE Omitted]

\* Task t moves to position pc.
Moves(t, pc) ==
    /\ apc' = [apc EXCEPT ![t] = pc]
    /\ running' = RunningAfter(t, pc)

\* The task is created and starts to run an async operation.
AStart(t) ==
    /\ apc[t] = "idle"
    /\ Scheduled(t)
    /\ \E op \in Ops :
          aop' = [aop EXCEPT ![t] = [NoCall EXCEPT !.mode = "async", !.op = op,
                                                   !.kw = TaskKwargs(op)]]
    /\ Moves(t, "check")
    /\ UNCHANGED <<adapter_vars, sync_client, async_client, sync_ctor_log,
                   async_ctor_log, last, thread_vars, tool_vars>>

\* if self._async_client is None:
ACheck(t) ==
    /\ apc[t] = "check"
    /\ Scheduled(t)
    /\ Moves(t, IF async_client = NoHandle THEN "construct" ELSE "call")
    /\ UNCHANGED <<adapter_vars, sync_client, async_client, sync_ctor_log,
                   async_ctor_log, last, thread_vars, tool_vars, aop>>

\* AsyncQuercleClient(api_key=self._api_key), not yet assigned.
AConstruct(t) ==
    /\ apc[t] = "construct"
    /\ Scheduled(t)
    /\ \E c \in CtorOutcomes :
          LET call == CtorCall("AsyncQuercleClient", async_ctor_kwargs(Self), c,
                               Len(async_ctor_log) + 1)
          IN /\ async_ctor_log' = Append(async_ctor_log, call)
             /\ aop' = [aop EXCEPT ![t].ctor = <<call>>,
                                   ![t].ctor_exc = call.exc,
                                   ![t].out = IF c = "ok" THEN NotReached
                                              ELSE Raise(c)]
             /\ Moves(t, IF c = "ok" THEN "store" ELSE "raised")
    /\ UNCHANGED <<adapter_vars, sync_client, async_client, sync_ctor_log,
                   last, thread_vars, tool_vars>>

\* self._async_client = <the handle just built>
AStore(t) ==
    /\ apc[t] = "store"
    /\ Scheduled(t)
    /\ async_client' = aop[t].ctor[1].built
    /\ Moves(t, "call")
    /\ UNCHANGED <<adapter_vars, sync_client, sync_ctor_log, async_ctor_log,
                   last, thread_vars, tool_vars, aop>>

\* return self._async_client, the call of the client's method on it, and
\* the await of that call.
ACallClient(t) ==
    /\ apc[t] = "call"
    /\ Scheduled(t)
    /\ LET r == AsyncMethod(Self, aop[t].op, Bind(aop[t].op, aop[t].kw),
                            "ok", NotReached)
       IN aop' = [aop EXCEPT ![t].got = async_client, ![t].inv = r.inv]
    /\ Moves(t, "awaiting")
    /\ UNCHANGED <<adapter_vars, sync_client, async_client, sync_ctor_log,
                   async_ctor_log, last, thread_vars, tool_vars>>

\* The client's call completes; the task resumes and runs to its end.
AResume(t) ==
    /\ apc[t] = "awaiting"
    /\ Scheduled(t)
    /\ \E co \in ClientOutcomes :
          LET r == AsyncMethod(Self, aop[t].op, Bind(aop[t].op, aop[t].kw),
                               "ok", co)
          IN /\ aop' = [aop EXCEPT ![t].co = co, ![t].out = r.out]
             /\ Moves(t, IF r.out.kind = "raise" THEN "raised" ELSE "done")
    /\ UNCHANGED <<adapter_vars, sync_client, async_client, sync_ctor_log,
                   async_ctor_log, last, thread_vars, tool_vars>>

NextAsync ==
    \E t \in Tasks :
        \/ AStart(t) \/ ACheck(t) \/ AConstruct(t)
        \/ AStore(t) \/ ACallClient(t) \/ AResume(t)

SpecAsync == Init /\ [][NextAsync]_vars

----------------------------------------------------------------------------
(* Tools. A tool is the framework's FunctionTool: a name, a description    *)
(* and two entry points, each a bound method of an adapter. The five       *)
(* factory functions each build an adapter of their own; to_tool_list,     *)
(* which QuercleToolSpec inherits, makes one tool per entry of             *)
(* spec_functions, bound to the adapter it is called on.                   *)

\* The bound method spec.<name> of the adapter numbered i.
BoundMethod(i, name) == [self |-> i, name |-> name, kind |-> "method"]

\* No function given (None).
NoFunction == [self |-> 0, name |-> "", kind |-> "none"]

\* The framework's wrapper that runs a sync function for an async caller.
sync_to_async(fn) == [self |-> fn.self, name |-> fn.name, kind |-> "sync_to_async"]

\* tool_metadata of the client package: for each operation the description
\* the factory functions look up.
tool_metadata ==
    [fetch |-> [description |-> "tool_metadata: fetch"],
     search |-> [description |-> "tool_metadata: search"],
     raw_fetch |-> [description |-> "tool_metadata: raw_fetch"],
     raw_search |-> [description |-> "tool_metadata: raw_search"],
     extract |-> [description |-> "tool_metadata: extract"]]

\* The docstring of each sync method, from which to_tool_list describes its
\* tools.
Docstring(name) ==
    CASE name = "fetch" -> "Fetch a web page and analyze its content using AI."
      [] name = "search" ->
            "Search the web and get AI-synthesized answers with citations."
      [] name = "raw_fetch" -> "Fetch a URL and return raw markdown or HTML."
      [] name = "raw_search" -> "Run web search and return raw results."
      [] name = "extract" -> "Fetch a URL and return chunks relevant to a query."

\* FunctionTool.from_defaults(fn=, async_fn=, name=, description=): without
\* an async function the tool gets the wrapper around the sync one.
FunctionTool_from_defaults(fn, async_fn, name, description) ==
    [name |-> name,
     description |-> description,
     fn |-> fn,
     async_fn |-> IF async_fn = NoFunction THEN sync_to_async(fn) ELSE async_fn]

\* The adapter a factory builds: QuercleToolSpec(api_key=api_key,
\* timeout=timeout), both always passed, None when the caller left them out.
FactorySpec(kw) ==
    LET a == Bind("__init__", kw)
    IN QuercleToolSpec_init([api_key |-> a.api_key, timeout |-> a.timeout])

\* The five factory functions. i is the identity of the adapter the call
\* builds; the result is that adapter with the tool.
create_quercle_fetch_tool(kw, i) ==
    [spec |-> FactorySpec(kw),
     tool |-> FunctionTool_from_defaults(
                BoundMethod(i, "fetch"), BoundMethod(i, "afetch"),
                "quercle_fetch", tool_metadata["fetch"].description)]

\* A variant of create_quercle_search_tool that binds the methods of one
\* adapter kept for all calls, the first one made.
create_quercle_search_tool_shared_spec(kw, i) ==
    [spec |-> FactorySpec(kw),
     tool |-> FunctionTool_from_defaults(
                BoundMethod(1, "search"), BoundMethod(1, "asearch"),
                "quercle_search", tool_metadata["search"].description)]

create_quercle_search_tool(kw, i) ==
    [spec |-> FactorySpec(kw),
     tool |-> FunctionTool_from_defaults(
                BoundMethod(i, "search"), BoundMethod(i, "asearch"),
                "quercle_search", tool_metadata["search"].description)]

create_quercle_raw_fetch_tool(kw, i) ==
    [spec |-> FactorySpec(kw),
     tool |-> FunctionTool_from_defaults(
                BoundMethod(i, "raw_fetch"), BoundMethod(i, "araw_fetch"),
                "quercle_raw_fetch", tool_metadata["raw_fetch"].description)]

\* A variant of create_quercle_raw_search_tool that binds search and
\* asearch.
create_quercle_raw_search_tool_binds_search(kw, i) ==
    [spec |-> FactorySpec(kw),
     tool |-> FunctionTool_from_defaults(
                BoundMethod(i, "search"), BoundMethod(i, "asearch"),
                "quercle_raw_search", tool_metadata["raw_search"].description)]

create_quercle_raw_search_tool(kw, i) ==
    [spec |-> FactorySpec(kw),
     tool |-> FunctionTool_from_defaults(
                BoundMethod(i, "raw_search"), BoundMethod(i, "araw_search"),
                "quercle_raw_search", tool_metadata["raw_search"].description)]

\* A variant of create_quercle_extract_tool that passes no async function.
create_quercle_extract_tool_without_async(kw, i) ==
    [spec |-> FactorySpec(kw),
     tool |-> FunctionTool_from_defaults(
                BoundMethod(i, "extract"), NoFunction,
                "quercle_extract", tool_metadata["extract"].description)]

create_quercle_extract_tool(kw, i) ==
    [spec |-> FactorySpec(kw),
     tool |-> FunctionTool_from_defaults(
                BoundMethod(i, "extract"), BoundMethod(i, "aextract"),
                "quercle_extract", tool_metadata["extract"].description)]

\* The factory function of each operation.
Factory(op, kw, i) ==
    CASE op = "fetch" -> create_quercle_fetch_tool(kw, i)
      [] op = "search" -> create_quercle_search_tool(kw, i)
      [] op = "raw_fetch" -> create_quercle_raw_fetch_tool(kw, i)
      [] op = "raw_search" -> create_quercle_raw_search_tool(kw, i)
      [] op = "extract" -> create_quercle_extract_tool(kw, i)

FactoryName(op) == "create_quercle_" \o op \o "_tool"

\* to_tool_list on the adapter numbered i: one tool per entry of
\* spec_functions, named after the sync method; an entry that is a pair
\* gives the tool the second method as its async function.
to_tool_list(i) ==
    [k \in DOMAIN spec_functions |->
        LET e == spec_functions[k]
        IN FunctionTool_from_defaults(
             BoundMethod(i, e[1]),
             IF Len(e) = 2 THEN BoundMethod(i, e[2]) ELSE NoFunction,
             e[1], Docstring(e[1]))]

\* The operation a method belongs to: an async method has the name of its
\* sync counterpart with an a before it.
MethodOp(name) == CHOOSE op \in Ops : name \in {op, "a" \o op}

\* Python's check of a keyword call against the parameters of op.
Given(kw) == {p \in DOMAIN kw : kw[p] # Omitted}
Accepts(op, kw) == Given(kw) \subseteq Params(op) /\ Required(op) \subseteq Given(kw)
Passed(op, kw) == [p \in Params(op) |-> IF p \in Given(kw) THEN kw[p] ELSE Omitted]

\* m(**kw) for a bound method m, or for the wrapper around one: the method
\* runs on the adapter it is bound to.
CallMethod(m, kw, c, co) ==
    LET self == adapters[m.self]
        op == MethodOp(m.name)
    IN IF ~Accepts(op, kw)
       THEN [g |-> [self |-> self, ret |-> NoHandle, ctor |-> <<>>, exc |-> ""],
             inv |-> <<>>, co |-> NotReached, out |-> Raise("TypeError")]
       ELSE IF m.name \in Ops
       THEN SyncMethod(self, op, Bind(op, Passed(op, kw)), c, co)
       ELSE AsyncMethod(self, op, Bind(op, Passed(op, kw)), c, co)

\* What is remembered of a call of the tool numbered k through the entry
\* point m: raw_output is what the tool output carries.
ToolCalled(k, entry, m, kw, r) ==
    [tool |-> k, adapter |-> m.self, entry |-> entry, method |-> m.name,
     kw |-> kw, got |-> r.g.ret, ctor |-> r.g.ctor, ctor_exc |-> r.g.exc,
     co |-> r.co, inv |-> r.inv, out |-> r.out,
     raw_output |-> IF r.out.kind = "return" THEN r.out.value ELSE PyNone]

\* What is remembered of a call that made the tool numbered k, or the
\* adapter numbered i.
Made(entry, name, kw, k, i) ==
    [NoToolCall EXCEPT !.tool = k, !.adapter = i, !.entry = entry,
                       !.method = name, !.kw = kw]

\* The operation the caller of a tool has in mind: the one in its name.
ToolNames ==
    [fetch |-> "quercle_fetch", search |-> "quercle_search",
     raw_fetch |-> "quercle_raw_fetch", raw_search |-> "quercle_raw_search",
     extract |-> "quercle_extract"]
ToolOp(name) ==
    IF name \in Ops THEN name ELSE CHOOSE op \in Ops : ToolNames[op] = name

\* The keyword calls of the factories: nothing given, or both the
\* credential and the timeout.
FactoryKwargs ==
    {[p \in Params("__init__") |-> IF g = 1 THEN ArgValues(p)[1] ELSE Omitted] :
        g \in {0, 1}}

\* The room for one more adapter: SpecTools is about one adapter and its
\* tools, SpecFactories about several.
OnlyAdapter == adapters = <<>>
AnotherAdapter == Len(adapters) < MaxAdapters

\* The keyword calls of a tool in SpecFactories: the required arguments.
RequiredKwargs == [op \in Ops |-> {TaskKwargs(op)}]

\* The keyword calls of a tool in SpecTools: every argument given.
ToolKwargs == [op \in Ops |-> {[p \in Params(op) |-> ArgValues(p)[2]]}]

\* The keyword calls of the factories in SpecFactories: equal ones, with
\* the credential and the timeout.
SameKwargs == {[p \in Params("__init__") |-> ArgValues(p)[1]]}

\* tool = create_quercle_<op>_tool(**kw)
CreateTool(room, kws) ==
    /\ room
    /\ Len(tools) < MaxTools
    /\ \E op \in Ops : \E kw \in kws :
          LET i == Len(adapters) + 1
              r == Factory(op, kw, i)
          IN /\ adapters' = Append(adapters, r.spec)
             /\ tools' = Append(tools, r.tool)
             /\ tool_last' = Made("factory", FactoryName(op), kw,
                                  Len(tools) + 1, i)
    /\ UNCHANGED <<adapter_vars, sync_client, async_client, sync_ctor_log,
                   async_ctor_log, last, thread_vars, task_vars>>

\* spec = QuercleToolSpec(**kw), made by the caller.
NewToolSpec(room) ==
    /\ room
    /\ \E kw \in FactoryKwargs :
          /\ adapters' = Append(adapters, QuercleToolSpec_init(kw))
          /\ tool_last' = Made("QuercleToolSpec", "__init__", kw, 0,
                               Len(adapters) + 1)
    /\ UNCHANGED <<adapter_vars, sync_client, async_client, sync_ctor_log,
                   async_ctor_log, last, thread_vars, task_vars, tools>>

\* spec.to_tool_list() on one of the adapters.
ToToolList ==
    /\ Len(tools) + Len(spec_functions) <= MaxTools
    /\ \E i \in DOMAIN adapters :
          /\ tools' = tools \o to_tool_list(i)
          /\ tool_last' = Made("to_tool_list", "to_tool_list", <<>>,
                               Len(tools) + 1, i)
    /\ UNCHANGED <<adapter_vars, sync_client, async_client, sync_ctor_log,
                   async_ctor_log, last, thread_vars, task_vars, adapters>>

\* The constructor outcomes and the budget of a call through method m.
MethodCtorOutcomes(m) ==
    LET field == IF m.name \in Ops THEN adapters[m.self].sync_client
                 ELSE adapters[m.self].async_client
    IN IF field = NoHandle THEN CtorOutcomes ELSE {"ok"}
MethodCtorBudget(m) ==
    IF m.name \in Ops
    THEN adapters[m.self].sync_client = NoHandle =>
            Len(sync_ctor_log) < MaxCtorCalls
    ELSE adapters[m.self].async_client = NoHandle =>
            Len(async_ctor_log) < MaxCtorCalls

\* The call of tool k through the entry point m, with the keyword
\* arguments of the operation the tool is named after.
CallThrough(k, entry, m, kws) ==
    /\ MethodCtorBudget(m)
    /\ \E kw \in kws :
       \E c \in MethodCtorOutcomes(m) : \E co \in ClientOutcomes :
          LET r == CallMethod(m, kw, c, co)
          IN /\ adapters' = [adapters EXCEPT ![m.self] = r.g.self]
             /\ Logged(r.g)
             /\ tool_last' = ToolCalled(k, entry, m, kw, r)
    /\ UNCHANGED <<adapter_vars, sync_client, async_client, last,
                   thread_vars, task_vars, tools>>

\* tool.call(**kw), the sync entry point, for the keyword calls K of the
\* operation the tool is named after.
ToolCall(K) ==
    \E k \in DOMAIN tools :
        CallThrough(k, "call", tools[k].fn, K[ToolOp(tools[k].name)])

\* await tool.acall(**kw), the async entry point.
ToolACall(K) ==
    \E k \in DOMAIN tools :
        CallThrough(k, "acall", tools[k].async_fn, K[ToolOp(tools[k].name)])

\* No adapter and no tool has been made; the adapter of the other
\* specifications is not used.
InitTools == Init /\ \A p \in DOMAIN init_kwargs : init_kwargs[p] = Omitted

\* One adapter, made by a factory or by the caller, its tools, and their
\* calls.
NextTools ==
    \/ CreateTool(OnlyAdapter, FactoryKwargs)
    \/ NewToolSpec(OnlyAdapter)
    \/ ToToolList
    \/ ToolCall(ToolKwargs)
    \/ ToolACall(ToolKwargs)

SpecTools == InitTools /\ [][NextTools]_vars

\* Several factory calls, and sync calls of the tools they returned.
NextFactories == CreateTool(AnotherAdapter, SameKwargs) \/ ToolCall(RequiredKwargs)

SpecFactories == InitTools /\ [][NextFactories]_vars

----------------------------------------------------------------------------
(* Vocabulary of the properties. *)

\* The credential and the timeout the adapter was constructed with.
ConfiguredApiKey ==
    IF init_kwargs.api_key = Omitted THEN PyNone ELSE init_kwargs.api_key
ConfiguredTimeout ==
    IF init_kwargs.timeout = Omitted THEN PyNone ELSE init_kwargs.timeout

\* The last completed call was one of the five operations in this mode.
LastOp(mode) == last.mode = mode /\ last.op \in Ops

\* The successful constructor invocations of a log.
Built(log) == {i \in DOMAIN log : log[i].built # NoHandle}

\* The order in which a client method takes positional arguments.
PositionalOrder(method) ==
    CASE method = "fetch" -> <<"url", "prompt">>
      [] method = "search" -> <<"query", "allowed_domains", "blocked_domains">>
      [] method = "raw_fetch" -> <<"url", "format", "use_safeguard">>
      [] method = "raw_search" -> <<"query", "format", "use_safeguard">>
      [] method = "extract" -> <<"url", "query", "format", "use_safeguard">>

\* The parameters an invocation binds: those given by position and those
\* given by keyword.
BoundNames(i) ==
    {PositionalOrder(i.method)[k] : k \in DOMAIN i.args} \cup DOMAIN i.kwargs

\* The value an invocation binds parameter p to.
BoundValue(i, p) ==
    IF \E k \in DOMAIN i.args : PositionalOrder(i.method)[k] = p
    THEN i.args[CHOOSE k \in DOMAIN i.args : PositionalOrder(i.method)[k] = p]
    ELSE i.kwargs[p]

\* Invocation i passes exactly the arguments of the call kw of op, an
\* omitted one as None, and timeout t, each once.
ForwardsExactly(i, op, kw, t) ==
    /\ i.method = op
    /\ Len(i.args) <= Len(PositionalOrder(op))
    /\ \A k \in DOMAIN i.args : PositionalOrder(op)[k] \notin DOMAIN i.kwargs
    /\ BoundNames(i) = Params(op) \cup {"timeout"}
    /\ \A p \in Params(op) :
          BoundValue(i, p) = IF kw[p] = Omitted THEN PyNone ELSE kw[p]
    /\ BoundValue(i, "timeout") = t

----------------------------------------------------------------------------
(* C1: for one adapter used sequentially, the QuercleClient constructor    *)
(* has been invoked at most once after any sequence of calls, and every    *)
(* call gets the handle the first one built; likewise for                  *)
(* AsyncQuercleClient. As stated: at most one constructor invocation.      *)
C1_CtorInvokedAtMostOnce ==
    /\ Len(sync_ctor_log) <= 1
    /\ Len(async_ctor_log) <= 1
    /\ last.mode = "sync" /\ last.got # NoHandle => last.got = sync_ctor_log[1].built
    /\ last.mode = "async" /\ last.got # NoHandle =>
          last.got = async_ctor_log[1].built

\* The handle a mode's calls must all get: the one its log's successful
\* constructor invocation built.
TheHandle(log) == log[CHOOSE i \in Built(log) : TRUE].built

\* At most one invocation of log built a handle, and it is the last one:
\* the constructor is never invoked once a handle exists.
BuiltOnce(log) ==
    /\ Cardinality(Built(log)) <= 1
    /\ \A i \in DOMAIN log : i < Len(log) => log[i].built = NoHandle

(* C1 as amended: a client constructor returns a handle at most once per   *)
(* mode; it is invoked again only while every earlier invocation raised,   *)
(* never once a handle exists; and every call that gets a handle gets the  *)
(* one that single successful invocation built, which is the cached one.   *)
C1_HandleBuiltAtMostOnce ==
    /\ BuiltOnce(sync_ctor_log)
    /\ BuiltOnce(async_ctor_log)
    /\ sync_client # NoHandle =>
          Built(sync_ctor_log) # {} /\ sync_client = TheHandle(sync_ctor_log)
    /\ async_client # NoHandle =>
          Built(async_ctor_log) # {} /\ async_client = TheHandle(async_ctor_log)
    /\ last.mode = "sync" /\ last.ctor_exc = "" =>
          last.got # NoHandle /\ last.got = sync_client
    /\ last.mode = "async" /\ last.ctor_exc = "" =>
          last.got # NoHandle /\ last.got = async_client

\* A sync operation that found the handle built by an earlier call and
\* constructed nothing, and an async handle built at the second attempt.
C1_Witness ==
    /\ LastOp("sync")
    /\ last.ctor = <<>>
    /\ last.got = sync_client
    /\ sync_client = Handle("QuercleClient", 1)
    /\ Len(async_ctor_log) = 2
    /\ async_client = Handle("AsyncQuercleClient", 2)

----------------------------------------------------------------------------
(* C2: each sync operation invokes the same-named method of the sync       *)
(* client with exactly the caller's arguments (an omitted optional         *)
(* argument as None) plus the configured timeout, once the handle is       *)
(* obtained, and returns the envelope's result unchanged when it is a      *)
(* string.                                                                 *)
C2_SyncForwardsArguments ==
    LastOp("sync") =>
        /\ last.ctor_exc = "" => Len(last.inv) = 1
        /\ \A k \in DOMAIN last.inv :
              /\ last.inv[k].client = last.got
              /\ last.inv[k].client.cls = "QuercleClient"
              /\ ForwardsExactly(last.inv[k], last.op, last.kw, ConfiguredTimeout)
        /\ last.co.kind = "return" /\ IsStr(last.co.value) =>
              last.out = Return(last.co.value)

\* extract called with every option on an adapter with a timeout, the
\* client answering with text.
C2_Witness ==
    /\ LastOp("sync")
    /\ last.op = "extract"
    /\ last.kw.format = PyStr("markdown")
    /\ last.kw.use_safeguard = PyBool(FALSE)
    /\ ConfiguredTimeout = PyFloat(30)
    /\ Len(last.inv) = 1
    /\ last.inv[1].args = <<PyStr("https://docs.python.org/3/"), PyStr("main features")>>
    /\ last.out = Return(PyStr("Fetched content"))

----------------------------------------------------------------------------
(* C3: for all five operations, sync and async, a non-string result of     *)
(* the client's envelope is returned as its JSON encoding, and no          *)
(* operation returns a non-string value.                                   *)
C3_NonStringResultIsJsonEncoded ==
    (LastOp("sync") \/ LastOp("async")) =>
        /\ last.co.kind = "return" /\ ~IsStr(last.co.value) =>
              last.out = Return(PyStr(json_dumps(last.co.value)))
        /\ last.out.kind = "return" => IsStr(last.out.value)

----------------------------------------------------------------------------
(* C4: a failure the external client raises during an operation call, in   *)
(* its constructor or in its method, reaches the caller as that same       *)
(* failure: it is not returned as a string, replaced or swallowed.         *)
C4_ClientFailurePropagates ==
    (LastOp("sync") \/ LastOp("async")) =>
        /\ last.ctor_exc # "" => last.out = Raise(last.ctor_exc)
        /\ last.co.kind = "raise" => last.out = last.co
        /\ last.out.kind = "raise" => last.ctor_exc # "" \/ last.co.kind = "raise"

\* An async extract whose client method raised, and the caller got it.
C4_Witness ==
    /\ LastOp("async")
    /\ last.op = "extract"
    /\ last.co = Raise("TimeoutError")
    /\ last.out = Raise("TimeoutError")

----------------------------------------------------------------------------
(* C5: every async operation invokes the same-named method of the async    *)
(* client handle with the arguments and timeout its sync counterpart       *)
(* forwards, returns what the sync counterpart returns for an equal        *)
(* envelope, and neither invokes nor constructs the sync client.           *)
C5_AsyncMatchesSync ==
    LastOp("async") =>
        LET sync == SyncMethod(Self, last.op, Bind(last.op, last.kw), "ok", last.co)
        IN /\ last.ctor_exc = "" =>
                 /\ Len(last.inv) = 1
                 /\ last.out = sync.out
           /\ \A k \in DOMAIN last.inv :
                 /\ last.inv[k].client = last.got
                 /\ last.inv[k].client.cls = "AsyncQuercleClient"
                 /\ last.inv[k].method = last.op
                 /\ last.inv[k].method = sync.inv[k].method
                 /\ last.inv[k].args = sync.inv[k].args
                 /\ last.inv[k].kwargs = sync.inv[k].kwargs
           /\ \A k \in DOMAIN last.ctor : last.ctor[k].cls = "AsyncQuercleClient"

\* araw_fetch answered with a dict, which comes back as JSON text, on an
\* adapter whose sync client was never constructed.
C5_Witness ==
    /\ LastOp("async")
    /\ last.op = "raw_fetch"
    /\ last.co = Return(PyDict(<<PyItem("key", PyStr("value"))>>))
    /\ last.out = Return(PyStr("{\"key\": \"value\"}"))
    /\ last.inv[1].client = Handle("AsyncQuercleClient", 1)
    /\ sync_ctor_log = <<>>

----------------------------------------------------------------------------
(* C6: when a client handle is created on first use, the constructor is    *)
(* given the configured credential and the configured timeout.             *)
C6_CtorGivenCredentialAndTimeout ==
    \A log \in {sync_ctor_log, async_ctor_log} : \A i \in DOMAIN log :
        /\ DOMAIN log[i].kwargs = {"api_key", "timeout"}
        /\ log[i].kwargs.api_key = ConfiguredApiKey
        /\ log[i].kwargs.timeout = ConfiguredTimeout

(* C6 as amended: the constructor is given the configured credential and   *)
(* nothing else; the configured timeout goes to every client method        *)
(* invocation instead.                                                     *)
C6_CtorGivenCredentialOnly ==
    /\ \A log \in {sync_ctor_log, async_ctor_log} : \A i \in DOMAIN log :
          /\ DOMAIN log[i].kwargs = {"api_key"}
          /\ log[i].kwargs.api_key = ConfiguredApiKey
    /\ \A k \in DOMAIN last.inv :
          /\ "timeout" \in DOMAIN last.inv[k].kwargs
          /\ last.inv[k].kwargs.timeout = ConfiguredTimeout

\* Both handles built on an adapter configured with a key and a timeout,
\* by a call that carried the timeout.
C6_Witness ==
    /\ ConfiguredApiKey = PyStr("test_key")
    /\ ConfiguredTimeout = PyFloat(30)
    /\ sync_client # NoHandle
    /\ async_client # NoHandle
    /\ LastOp("sync")
    /\ last.ctor # <<>>
    /\ Len(last.inv) = 1

----------------------------------------------------------------------------
HoldsBuiltHandle(field, log) ==
    field = NoHandle \/ \E i \in DOMAIN log : log[i].built = field

\* Thread t stores in this step.
Stores(t) == tpc[t] = "store" /\ tpc'[t] = "return"

----------------------------------------------------------------------------
(* C8: when two threads make their first call on one adapter at the same   *)
(* time, both can find the handle Unset and both invoke the constructor;   *)
(* two handles are built, the one written last is the one cached, and the  *)
(* first caller may have used the discarded one. The part that holds of    *)
(* every interleaving: every thread that found the field Unset invokes     *)
(* the constructor itself and gets a handle of its own, and a store        *)
(* always leaves the storing thread's handle in the field.                 *)
C8_RacingFirstCallsLastWriteWins ==
    /\ [](/\ \A t, u \in Threads :
                t # u /\ tlocal[t] # NoHandle => tlocal[t] # tlocal[u]
          /\ Len(sync_ctor_log) =
                Cardinality({t \in Threads :
                               tlocal[t] # NoHandle \/ tpc[t] = "raised"}))
    /\ [][\A t \in Threads :
            /\ Stores(t) => sync_client' = tlocal[t]
            /\ tpc[t] = "construct" /\ tpc'[t] # "construct" =>
                  Len(sync_ctor_log') = Len(sync_ctor_log) + 1]_vars

\* Both threads found the handle Unset and constructed; the second handle
\* is the cached one, and the thread that built the first made its request
\* on the first, which is cached no more.
C8_Witness ==
    /\ Len(sync_ctor_log) = 2
    /\ sync_ctor_log[1].built = Handle("QuercleClient", 1)
    /\ sync_ctor_log[2].built = Handle("QuercleClient", 2)
    /\ sync_client = Handle("QuercleClient", 2)
    /\ \E t, u \in Threads :
          /\ tpc[t] = "done" /\ tlocal[t] = Handle("QuercleClient", 1)
          /\ tgot[t] = Handle("QuercleClient", 1)
          /\ tpc[u] = "done" /\ tlocal[u] = Handle("QuercleClient", 2)
          /\ tgot[u] = Handle("QuercleClient", 2)

----------------------------------------------------------------------------
(* C9: each operation call invokes the client method exactly once, whether *)
(* the invocation succeeds or fails; nothing is retried. As stated:        *)
(* exactly one invocation in every call.                                   *)
C9_ExactlyOneInvocation ==
    (LastOp("sync") \/ LastOp("async")) => Len(last.inv) = 1

(* C9 as amended: each operation call invokes the client method at most    *)
(* once: exactly once when it obtains the client handle, whether the       *)
(* invocation returns or raises, and not at all when the client            *)
(* constructor raises; the constructor too is invoked at most once per     *)
(* call.                                                                   *)
C9_OneInvocationOnceHandleObtained ==
    (LastOp("sync") \/ LastOp("async")) =>
        /\ Len(last.inv) <= 1
        /\ Len(last.ctor) <= 1
        /\ last.ctor_exc = "" <=> Len(last.inv) = 1
        /\ last.co.kind = "raise" => Len(last.inv) = 1

\* A raw_fetch whose one invocation of the client raised.
C9_Witness ==
    /\ LastOp("sync")
    /\ last.op = "raw_fetch"
    /\ last.co = Raise("TimeoutError")
    /\ Len(last.inv) = 1
    /\ last.out = Raise("TimeoutError")

----------------------------------------------------------------------------
(* C10: right after construction with no arguments the credential and the  *)
(* timeout are None and both handles Unset; construction with arguments    *)
(* stores exactly what was given and creates no handle either.             *)
C10_FreshAdapter ==
    last.mode = "none" /\ (\A t \in Threads : tpc[t] = "idle") =>
        /\ api_key = ConfiguredApiKey
        /\ timeout = ConfiguredTimeout
        /\ (\A p \in DOMAIN init_kwargs : init_kwargs[p] = Omitted) =>
              api_key = PyNone /\ timeout = PyNone
        /\ sync_client = NoHandle
        /\ async_client = NoHandle
        /\ sync_ctor_log = <<>>
        /\ async_ctor_log = <<>>

\* QuercleToolSpec() before any call.
C10_Witness ==
    /\ last.mode = "none"
    /\ \A p \in DOMAIN init_kwargs : init_kwargs[p] = Omitted
    /\ api_key = PyNone
    /\ timeout = PyNone
    /\ sync_client = NoHandle
    /\ async_client = NoHandle

----------------------------------------------------------------------------
(* C14: the adapter's configuration is immutable after construction: no    *)
(* operation call, sync or async, succeeding or failing, and no handle     *)
(* creation changes the stored credential or timeout, so every call of     *)
(* the adapter's lifetime forwards the same timeout value.                 *)
C14_ConfigurationImmutable ==
    /\ [](/\ api_key = ConfiguredApiKey
          /\ timeout = ConfiguredTimeout
          /\ \A k \in DOMAIN last.inv :
                last.inv[k].kwargs.timeout = ConfiguredTimeout)
    /\ [][api_key' = api_key /\ timeout' = timeout]_vars

\* Both handles created, one of the constructors having raised at first,
\* and then a sync call that failed, on an adapter with a key and a timeout.
C14_Witness ==
    /\ api_key = PyStr("test_key")
    /\ timeout = PyFloat(30)
    /\ sync_client # NoHandle
    /\ async_client # NoHandle
    /\ Len(async_ctor_log) = 2
    /\ LastOp("sync")
    /\ last.out = Raise("TimeoutError")
    /\ last.inv[1].kwargs.timeout = PyFloat(30)

----------------------------------------------------------------------------
(* C15: the two handles are independent: a sync operation leaves the async *)
(* handle as it is (Unset if it was Unset) and never invokes the async     *)
(* client constructor; an async operation leaves the sync handle as it is  *)
(* and never invokes the sync client constructor.                          *)
C15_HandlesIndependent ==
    [][/\ last'.mode = "sync" =>
             /\ async_client' = async_client
             /\ async_ctor_log' = async_ctor_log
             /\ \A k \in DOMAIN last'.ctor : last'.ctor[k].cls = "QuercleClient"
             /\ \A k \in DOMAIN last'.inv : last'.inv[k].client # async_client
       /\ last'.mode = "async" =>
             /\ sync_client' = sync_client
             /\ sync_ctor_log' = sync_ctor_log
             /\ \A k \in DOMAIN last'.ctor :
                   last'.ctor[k].cls = "AsyncQuercleClient"
             /\ \A k \in DOMAIN last'.inv : last'.inv[k].client # sync_client]_vars

\* An async operation has built the async handle and made its request,
\* the sync client was never constructed and its handle is still Unset.
C15_Witness ==
    /\ LastOp("async")
    /\ Len(last.ctor) = 1
    /\ Len(last.inv) = 1
    /\ async_client = Handle("AsyncQuercleClient", 1)
    /\ sync_client = NoHandle
    /\ sync_ctor_log = <<>>

----------------------------------------------------------------------------
(* C16: failures leave the handle state consistent. When the client        *)
(* constructor raises on first use the handle stays Unset, and the next    *)
(* operation call invokes the constructor again; when a client method      *)
(* raises the handle stays Built, and the next call uses that same handle  *)
(* and constructs nothing.                                                 *)
C16_FailureKeepsHandleState ==
    /\ [](/\ last.mode = "sync" /\ last.ctor_exc # "" => sync_client = NoHandle
          /\ last.mode = "async" /\ last.ctor_exc # "" => async_client = NoHandle
          /\ last.mode = "sync" /\ last.co.kind = "raise" =>
                sync_client # NoHandle /\ sync_client = last.got
          /\ last.mode = "async" /\ last.co.kind = "raise" =>
                async_client # NoHandle /\ async_client = last.got)
    /\ [][/\ last'.mode = "sync" /\ sync_client = NoHandle =>
                /\ Len(last'.ctor) = 1
                /\ sync_ctor_log' = Append(sync_ctor_log, last'.ctor[1])
          /\ last'.mode = "sync" /\ sync_client # NoHandle =>
                /\ last'.ctor = <<>>
                /\ sync_ctor_log' = sync_ctor_log
                /\ last'.got = sync_client
                /\ sync_client' = sync_client
          /\ last'.mode = "async" /\ async_client = NoHandle =>
                /\ Len(last'.ctor) = 1
                /\ async_ctor_log' = Append(async_ctor_log, last'.ctor[1])
          /\ last'.mode = "async" /\ async_client # NoHandle =>
                /\ last'.ctor = <<>>
                /\ async_ctor_log' = async_ctor_log
                /\ last'.got = async_client
                /\ async_client' = async_client]_vars

\* The sync constructor raised at first use and built the handle at the
\* next call; a later call, whose client method raised, found that handle,
\* used it and left it in place.
C16_Witness ==
    /\ Len(sync_ctor_log) = 2
    /\ sync_ctor_log[1].exc = "AuthenticationError"
    /\ sync_ctor_log[2].built = sync_client
    /\ sync_client # NoHandle
    /\ LastOp("sync")
    /\ last.ctor = <<>>
    /\ last.co = Raise("TimeoutError")
    /\ last.got = sync_client
    /\ last.inv[1].client = sync_client

----------------------------------------------------------------------------
(* Vocabulary of the properties about tools. *)

\* The async method paired with the sync method op in spec_functions.
AsyncOf(op) ==
    spec_functions[CHOOSE k \in DOMAIN spec_functions :
                      spec_functions[k][1] = op][2]

\* A tool with the name a factory gives, and one named as to_tool_list
\* names its tools.
FactoryTool(t) == \E op \in Ops : t.name = ToolNames[op]
ListTool(t) == t.name \in Ops

\* The last call was a call of a tool.
ToolWasCalled == tool_last.entry \in {"call", "acall"}

\* The client class behind an entry point of a tool.
ClientClass(entry) ==
    IF entry = "call" THEN "QuercleClient" ELSE "AsyncQuercleClient"

\* The handle field of adapter a behind an entry point of a tool.
ClientField(a, entry) ==
    IF entry = "call" THEN a.sync_client ELSE a.async_client

----------------------------------------------------------------------------
(* C11: each of the five factory functions returns a tool whose name is    *)
(* the fixed identifier of its operation, whose description is not empty   *)
(* (it is the one tool_metadata has for the operation), and whose sync     *)
(* and async entry points are the matching method pair of one adapter,     *)
(* built by that call and configured with the given credential and         *)
(* timeout.                                                                *)
C11_FactoryReturnsBoundTool ==
    tool_last.entry = "factory" =>
        \A op \in Ops : tool_last.method = FactoryName(op) =>
            LET k == tool_last.tool
                i == tool_last.adapter
            IN /\ k = Len(tools)
               /\ i = Len(adapters)
               /\ tools[k].name = ToolNames[op]
               /\ tools[k].description # ""
               /\ tools[k].description = tool_metadata[op].description
               /\ tools[k].fn = BoundMethod(i, op)
               /\ tools[k].async_fn = BoundMethod(i, AsyncOf(op))
               /\ \A j \in DOMAIN tools :
                     j # k => tools[j].fn.self # i /\ tools[j].async_fn.self # i
               /\ adapters[i].api_key =
                     (IF tool_last.kw.api_key = Omitted THEN PyNone
                      ELSE tool_last.kw.api_key)
               /\ adapters[i].timeout =
                     (IF tool_last.kw.timeout = Omitted THEN PyNone
                      ELSE tool_last.kw.timeout)
               /\ adapters[i].sync_client = NoHandle
               /\ adapters[i].async_client = NoHandle

\* create_quercle_extract_tool(api_key="test_key", timeout=30.0) has
\* returned its tool.
C11_Witness ==
    /\ tool_last.entry = "factory"
    /\ tool_last.method = "create_quercle_extract_tool"
    /\ tool_last.kw.api_key = PyStr("test_key")
    /\ tools[tool_last.tool].name = "quercle_extract"
    /\ tools[tool_last.tool].async_fn.name = "aextract"
    /\ adapters[tool_last.adapter].api_key = PyStr("test_key")
    /\ adapters[tool_last.adapter].timeout = PyFloat(30)

----------------------------------------------------------------------------
(* C12: calling the tool a factory returned, with the keyword arguments of *)
(* its operation, invokes the corresponding client method through the      *)
(* tool's own adapter, and the raw value of the tool output is what the    *)
(* adapter's operation returns for the client's envelope: the envelope's   *)
(* text itself when the result is text.                                    *)
C12_FactoryToolCallsItsAdapter ==
    ToolWasCalled /\ FactoryTool(tools[tool_last.tool]) =>
        LET k == tool_last.tool
            op == ToolOp(tools[k].name)
            self == adapters[tools[k].fn.self]
            expected ==
                IF tool_last.entry = "call"
                THEN SyncMethod(self, op, Bind(op, tool_last.kw), "ok",
                                tool_last.co)
                ELSE AsyncMethod(self, op, Bind(op, tool_last.kw), "ok",
                                 tool_last.co)
        IN /\ tool_last.adapter = tools[k].fn.self
           /\ tools[k].async_fn.self = tools[k].fn.self
           /\ tool_last.ctor_exc = "" =>
                 /\ Len(tool_last.inv) = 1
                 /\ tool_last.inv[1].client = ClientField(self, tool_last.entry)
                 /\ tool_last.inv[1].client.cls = ClientClass(tool_last.entry)
                 /\ ForwardsExactly(tool_last.inv[1], op, tool_last.kw,
                                    self.timeout)
           /\ tool_last.co.kind = "return" =>
                 /\ tool_last.out = expected.out
                 /\ tool_last.raw_output = expected.out.value
                 /\ IsStr(tool_last.co.value) =>
                       tool_last.raw_output = tool_last.co.value

\* The tool of create_quercle_raw_search_tool, called, the client
\* answering with a dict: the raw output is the JSON text.
C12_Witness ==
    /\ tool_last.entry = "call"
    /\ tools[tool_last.tool].name = "quercle_raw_search"
    /\ Len(tool_last.inv) = 1
    /\ tool_last.inv[1].method = "raw_search"
    /\ tool_last.inv[1].client = adapters[tool_last.adapter].sync_client
    /\ tool_last.co = Return(PyDict(<<PyItem("key", PyStr("value"))>>))
    /\ tool_last.raw_output = PyStr("{\"key\": \"value\"}")

----------------------------------------------------------------------------
(* C13: to_tool_list on an adapter yields exactly five tools, one per pair *)
(* of spec_functions, named fetch, search, raw_fetch, raw_search and       *)
(* extract; the async entry point of each is the async method bound to     *)
(* that same adapter, not a wrapper around the sync method, so the five    *)
(* tools share the adapter's two client handles.                           *)
C13_ToolListBindsNativeAsync ==
    /\ tool_last.entry = "to_tool_list" =>
          LET first == tool_last.tool
              i == tool_last.adapter
              names == <<"fetch", "search", "raw_fetch", "raw_search", "extract">>
          IN /\ Len(tools) = first + 4
             /\ \A n \in 1..5 :
                   /\ tools[first + n - 1].name = names[n]
                   /\ tools[first + n - 1].fn = BoundMethod(i, names[n])
                   /\ tools[first + n - 1].async_fn =
                         BoundMethod(i, "a" \o names[n])
    /\ \A k \in DOMAIN tools : ListTool(tools[k]) =>
          /\ tools[k].async_fn.kind = "method"
          /\ tools[k].async_fn.name = AsyncOf(tools[k].name)
          /\ tools[k].async_fn.self = tools[k].fn.self
    /\ ToolWasCalled /\ ListTool(tools[tool_last.tool]) =>
          LET self == adapters[tool_last.adapter]
          IN /\ tool_last.adapter = tools[tool_last.tool].fn.self
             /\ \A n \in DOMAIN tool_last.inv :
                   /\ tool_last.inv[n].client = ClientField(self, tool_last.entry)
                   /\ tool_last.inv[n].client.cls = ClientClass(tool_last.entry)
             /\ BuiltOnce(sync_ctor_log)
             /\ BuiltOnce(async_ctor_log)

\* The extract tool of a tool list, called through its async entry point,
\* used the async handle that a call of another tool of the list had
\* built; a sync call had built the sync handle.
C13_Witness ==
    /\ tool_last.entry = "acall"
    /\ tools[tool_last.tool].name = "extract"
    /\ tool_last.method = "aextract"
    /\ tool_last.ctor = <<>>
    /\ tool_last.got = Handle("AsyncQuercleClient", 1)
    /\ adapters[tool_last.adapter].async_client = Handle("AsyncQuercleClient", 1)
    /\ adapters[tool_last.adapter].sync_client = Handle("QuercleClient", 1)
    /\ \A k \in DOMAIN tools : ListTool(tools[k])

----------------------------------------------------------------------------
(* C17: for async operations run as interleaved tasks of one event loop on *)
(* one adapter, the async handle is constructed at most once under every   *)
(* interleaving: a task tests and sets the handle before its only          *)
(* suspension point, the await of the client's call, so no other task      *)
(* runs between the test and the assignment.                               *)
C17_AsyncHandleBuiltOnceOnEventLoop ==
    /\ [](/\ BuiltOnce(async_ctor_log)
          /\ HoldsBuiltHandle(async_client, async_ctor_log)
          /\ \A t \in Tasks :
                /\ apc[t] \in {"check", "construct", "store", "call"} =>
                      running = t
                /\ apc[t] \in {"awaiting", "done"} =>
                      aop[t].got # NoHandle /\ aop[t].got = async_client
          /\ Cardinality({t \in Tasks : apc[t] \in {"construct", "store"}}) <= 1)
    /\ [][/\ async_client # NoHandle => async_client' = async_client
          /\ \A t \in Tasks :
                running = t =>
                   \A u \in Tasks \ {t} : apc'[u] = apc[u] /\ aop'[u] = aop[u]]_vars

\* Two tasks are suspended at their awaits at the same time: one built the
\* handle, the other found it, and both called the client on it.
C17_Witness ==
    /\ \A t \in Tasks : apc[t] = "awaiting"
    /\ Len(async_ctor_log) = 1
    /\ async_client = Handle("AsyncQuercleClient", 1)
    /\ \E t, u \in Tasks :
          /\ t # u
          /\ Len(aop[t].ctor) = 1
          /\ aop[u].ctor = <<>>
          /\ aop[t].got = async_client
          /\ aop[u].got = async_client

----------------------------------------------------------------------------
(* C18: every factory call builds an adapter of its own, so tools of       *)
(* different factory calls, equal credential and timeout or not, never     *)
(* share a client handle, and a call of one of them never changes the      *)
(* handle state of another; N such tools, each used through its sync       *)
(* entry point, make N client constructions.                               *)
C18_FactoryToolsShareNothing ==
    /\ [](/\ Len(adapters) = Len(tools)
          /\ \A j, k \in DOMAIN tools :
                j # k =>
                   /\ tools[j].fn.self # tools[k].fn.self
                   /\ tools[j].async_fn.self # tools[k].async_fn.self
          /\ \A k \in DOMAIN tools :
                tools[k].fn.self = k /\ tools[k].async_fn.self = k
          /\ \A i, j \in DOMAIN adapters :
                i # j /\ adapters[i].sync_client # NoHandle =>
                   adapters[i].sync_client # adapters[j].sync_client
          /\ \A i \in DOMAIN adapters :
                HoldsBuiltHandle(adapters[i].sync_client, sync_ctor_log)
          /\ Cardinality(Built(sync_ctor_log)) =
                Cardinality({i \in DOMAIN adapters :
                               adapters[i].sync_client # NoHandle}))
    /\ [][\A j \in DOMAIN adapters :
            j # tool_last'.adapter => adapters'[j] = adapters[j]]_vars

\* Two tools of factory calls with equal credential and timeout, each
\* called: two constructions, and each adapter holds its own handle.
C18_Witness ==
    /\ Len(tools) = 2
    /\ adapters[1].api_key = adapters[2].api_key
    /\ adapters[1].timeout = adapters[2].timeout
    /\ tools[1].name = tools[2].name
    /\ Len(sync_ctor_log) = 2
    /\ adapters[1].sync_client # NoHandle
    /\ adapters[2].sync_client # NoHandle
    /\ adapters[1].sync_client # adapters[2].sync_client
    /\ tool_last.entry = "call"
    /\ Len(tool_last.ctor) = 1

====
